---- MODULE Spec2Model ----
(***************************************************************************)
(* Model of pytorch_pretrained_bert/tokenizer.py.                          *)
(*                                                                         *)
(* A character is its Unicode code point (what ord() returns); a string is *)
(* a sequence of code points; a list of strings is a sequence of such      *)
(* sequences.  The objects are immutable after construction and every     *)
(* operation is a function of its argument: the initial state holds the    *)
(* constructed objects and the argument of the call (input), and each      *)
(* operation is one action that applies the code to input and records the  *)
(* outcome in ret.                                                         *)
(***************************************************************************)
EXTENDS Integers, Sequences, FiniteSets, TLC

VARIABLES
    do_lower_case,              \* BasicTokenizer.do_lower_case
    vocab_file,                 \* content of the vocabulary file, as characters
    file_lines,                 \* the lines the file was written from (ghost)
    vocab,                      \* BertTokenizer.vocab : token -> id
    ids_to_tokens,              \* BertTokenizer.ids_to_tokens : id -> token
    max_len,                    \* BertTokenizer.max_len
    max_input_chars_per_word,   \* WordpieceTokenizer.max_input_chars_per_word
    sp_do_lower_case,           \* SentencePieceTokenizer.do_lower_case
    wordpiece_mode,             \* SentencePieceTokenizer.wordpiece_mode
    unk_token_id,               \* SentencePieceTokenizer.unk_token_id
    unused_token_id,            \* SentencePieceTokenizer.unused_token_id
    input,                      \* the argument of the call: [kind, val]
    ret                         \* the outcome of the call: [op, status, value]

vars == <<do_lower_case, vocab_file, file_lines, vocab, ids_to_tokens, max_len,
          max_input_chars_per_word, sp_do_lower_case, wordpiece_mode,
          unk_token_id, unused_token_id, input, ret>>

config == <<do_lower_case, vocab_file, file_lines, vocab, ids_to_tokens, max_len,
            max_input_chars_per_word, sp_do_lower_case, wordpiece_mode,
            unk_token_id, unused_token_id, input>>

-----------------------------------------------------------------------------
(* Bounds of the model.                                                    *)

\* number of chunks a BasicTokenizer input text is made of
MaxChunks == 3
\* number of lines of a vocabulary file
MaxLines == 2
\* number of tokens handed to convert_tokens_to_ids
MaxTokens == 2
\* number of characters of a word handed to WordpieceTokenizer
MaxWordLen == 4
\* largest id the sentencepiece model uses
MaxSpmId == 2
\* number of ids or pieces in a list the sentencepiece model takes or returns
MaxSpmSeq == 1

-----------------------------------------------------------------------------
(* Sequence helpers (Python list / str primitives).                        *)

\* all sequences over S of length 0..n
SeqUpTo(S, n) == UNION {[1..k -> S] : k \in 0..n}

\* s[a:b] for 0 <= a <= b <= len(s) (0-based, end exclusive)
Slice(s, a, b) == [k \in 1..(b - a) |-> s[a + k]]

RECURSIVE Concat(_)
\* "".join(list)
Concat(list) ==
    IF list = <<>> THEN <<>> ELSE Head(list) \o Concat(Tail(list))

RECURSIVE JoinSpace(_)
\* " ".join(list)
JoinSpace(list) ==
    IF list = <<>> THEN <<>>
    ELSE IF Len(list) = 1 THEN Head(list)
    ELSE Head(list) \o <<32>> \o JoinSpace(Tail(list))

\* x in tuple_or_list
InSeq(x, list) == \E k \in 1..Len(list) : list[k] = x

-----------------------------------------------------------------------------
(* Character classification: the part of the Unicode tables the model's    *)
(* alphabet needs.                                                         *)

\* unicodedata.category(char)
category(c) ==
    CASE c \in 0..31 \cup 127..159 -> "Cc"
      [] c \in {32, 160}           -> "Zs"
      [] c \in {33, 34, 35, 37, 38, 39, 42, 44, 46, 47, 58, 59, 63, 64, 92} -> "Po"
      [] c \in {40, 91, 123}       -> "Ps"
      [] c \in {41, 93, 125}       -> "Pe"
      [] c = 45                    -> "Pd"
      [] c = 95                    -> "Pc"
      [] c = 36                    -> "Sc"
      [] c \in {43, 60, 61, 62, 124, 126} -> "Sm"
      [] c \in {94, 96}            -> "Sk"
      [] c \in 48..57              -> "Nd"
      [] c \in 65..90 \cup {201}   -> "Lu"
      [] c \in 97..122 \cup {233}  -> "Ll"
      [] c \in 768..879            -> "Mn"
      [] c \in 19968..40959        -> "Lo"
      [] c = 65533                 -> "So"
      [] OTHER                     -> "Cn"

\* str.isspace() of one character: what str.strip() and str.split() remove
isspace(c) ==
    c \in 9..13 \cup 28..32 \cup {133, 160, 5760} \cup 8192..8202
          \cup {8232, 8233, 8239, 8287, 12288}

\* str.lower() of one character
lower_char(c) == IF c \in 65..90 \cup {201} THEN c + 32 ELSE c

\* str.lower()
lower(s) == [k \in 1..Len(s) |-> lower_char(s[k])]

\* unicodedata.normalize("NFD", char): canonical decomposition
nfd_char(c) ==
    CASE c = 233 -> <<101, 769>>
      [] c = 201 -> <<69, 769>>
      [] OTHER   -> <<c>>

RECURSIVE normalize_NFD(_)
normalize_NFD(s) ==
    IF s = <<>> THEN <<>> ELSE nfd_char(Head(s)) \o normalize_NFD(Tail(s))

_is_whitespace(c) ==
    IF c = 32 \/ c = 9 \/ c = 10 \/ c = 13 THEN TRUE
    ELSE category(c) = "Zs"

_is_control(c) ==
    IF c = 9 \/ c = 10 \/ c = 13 THEN FALSE
    ELSE category(c) \in {"Cc", "Cf", "Cs", "Co", "Cn"}    \* cat.startswith("C")

_is_punctuation(c) ==
    IF \/ (c >= 33 /\ c <= 47)
       \/ (c >= 58 /\ c <= 64)
       \/ (c >= 91 /\ c <= 96)
       \/ (c >= 123 /\ c <= 126)
    THEN TRUE
    ELSE category(c) \in {"Pc", "Pd", "Ps", "Pe", "Pi", "Pf", "Po"}    \* cat.startswith("P")

-----------------------------------------------------------------------------
(* whitespace_tokenize and BasicTokenizer.                                 *)

RECURSIVE split_loop(_, _, _)
\* str.split(): cut at runs of whitespace, no empty strings
split_loop(s, cur, out) ==
    IF s = <<>> THEN (IF cur = <<>> THEN out ELSE Append(out, cur))
    ELSE IF isspace(Head(s))
         THEN split_loop(Tail(s), <<>>, IF cur = <<>> THEN out ELSE Append(out, cur))
         ELSE split_loop(Tail(s), Append(cur, Head(s)), out)

RECURSIVE lstrip(_)
lstrip(s) == IF s # <<>> /\ isspace(Head(s)) THEN lstrip(Tail(s)) ELSE s

RECURSIVE rstrip(_)
rstrip(s) ==
    IF s # <<>> /\ isspace(s[Len(s)]) THEN rstrip(SubSeq(s, 1, Len(s) - 1)) ELSE s

\* str.strip()
strip(s) == rstrip(lstrip(s))

whitespace_tokenize(text) ==
    LET stripped == strip(text)
    IN  IF stripped = <<>> THEN <<>> ELSE split_loop(stripped, <<>>, <<>>)

\* BertTokenizer.__init__ / BasicTokenizer.__init__ default of never_split:
\* ("[UNK]", "[SEP]", "[PAD]", "[CLS]", "[MASK]")
never_split ==
    << <<91, 85, 78, 75, 93>>, <<91, 83, 69, 80, 93>>, <<91, 80, 65, 68, 93>>,
       <<91, 67, 76, 83, 93>>, <<91, 77, 65, 83, 75, 93>> >>

RECURSIVE _clean_text(_)
_clean_text(text) ==
    IF text = <<>> THEN <<>>
    ELSE LET cp == Head(text)
         IN  IF cp = 0 \/ cp = 65533 \/ _is_control(cp)
             THEN _clean_text(Tail(text))
             ELSE IF _is_whitespace(cp)
                  THEN <<32>> \o _clean_text(Tail(text))
                  ELSE <<cp>> \o _clean_text(Tail(text))

_is_chinese_char(cp) ==
    \/ (cp >= 19968 /\ cp <= 40959)       \* 0x4E00  .. 0x9FFF
    \/ (cp >= 13312 /\ cp <= 19903)       \* 0x3400  .. 0x4DBF
    \/ (cp >= 131072 /\ cp <= 173791)     \* 0x20000 .. 0x2A6DF
    \/ (cp >= 173824 /\ cp <= 177983)     \* 0x2A700 .. 0x2B73F
    \/ (cp >= 177984 /\ cp <= 178207)     \* 0x2B740 .. 0x2B81F
    \/ (cp >= 178208 /\ cp <= 183983)     \* 0x2B820 .. 0x2CEAF
    \/ (cp >= 63744 /\ cp <= 64255)       \* 0xF900  .. 0xFAFF
    \/ (cp >= 194560 /\ cp <= 195103)     \* 0x2F800 .. 0x2FA1F

RECURSIVE _tokenize_chinese_chars(_)
_tokenize_chinese_chars(text) ==
    IF text = <<>> THEN <<>>
    ELSE IF _is_chinese_char(Head(text))
         THEN <<32, Head(text), 32>> \o _tokenize_chinese_chars(Tail(text))
         ELSE <<Head(text)>> \o _tokenize_chinese_chars(Tail(text))

_run_strip_accents(text) ==
    SelectSeq(normalize_NFD(text), LAMBDA char : category(char) # "Mn")

RECURSIVE split_on_punc_loop_sticky(_, _, _, _)
\* the loop with start_new_word left unset after a punctuation character
split_on_punc_loop_sticky(chars, i, start_new_word, output) ==
    IF ~(i < Len(chars)) THEN output
    ELSE LET char == chars[i + 1]
         IN  IF _is_punctuation(char)
             THEN split_on_punc_loop_sticky(chars, i + 1, FALSE, Append(output, <<char>>))
             ELSE LET out1 == IF start_new_word THEN Append(output, <<>>) ELSE output
                      out2 == [out1 EXCEPT ![Len(out1)] = Append(@, char)]
                  IN  split_on_punc_loop_sticky(chars, i + 1, FALSE, out2)

RECURSIVE split_on_punc_loop(_, _, _, _)
\* the while loop of _run_split_on_punc; i is 0-based, output a list of lists
split_on_punc_loop(chars, i, start_new_word, output) ==
    IF ~(i < Len(chars)) THEN output
    ELSE LET char == chars[i + 1]
         IN  IF _is_punctuation(char)
             THEN split_on_punc_loop(chars, i + 1, TRUE, Append(output, <<char>>))
             ELSE LET out1 == IF start_new_word THEN Append(output, <<>>) ELSE output
                      out2 == [out1 EXCEPT ![Len(out1)] = Append(@, char)]
                  IN  split_on_punc_loop(chars, i + 1, FALSE, out2)

\* _run_split_on_punc without the never_split test
_run_split_on_punc_unguarded(text) ==
    split_on_punc_loop(text, 0, TRUE, <<>>)

_run_split_on_punc(text) ==
    IF InSeq(text, never_split) THEN <<text>>
    ELSE split_on_punc_loop(text, 0, TRUE, <<>>)

RECURSIVE basic_token_loop(_, _, _)
\* the for loop of BasicTokenizer.tokenize over orig_tokens
basic_token_loop(orig_tokens, lc, split_tokens) ==
    IF orig_tokens = <<>> THEN split_tokens
    ELSE LET token == Head(orig_tokens)
             tok1  == IF lc /\ ~InSeq(token, never_split)
                      THEN _run_strip_accents(lower(token))
                      ELSE token
         IN  basic_token_loop(Tail(orig_tokens), lc,
                              split_tokens \o _run_split_on_punc(tok1))

\* BasicTokenizer.tokenize
basic_tokenize(text, lc) ==
    LET text1       == _clean_text(text)
        text2       == _tokenize_chinese_chars(text1)
        orig_tokens == whitespace_tokenize(text2)
        split_tokens == basic_token_loop(orig_tokens, lc, <<>>)
    IN  whitespace_tokenize(JoinSpace(split_tokens))

-----------------------------------------------------------------------------
(* load_vocab and the id conversions of BertTokenizer.                     *)

\* the empty dict
EmptyDict == [t \in {} |-> 0]

\* d[key] = value
DictSet(d, key, value) ==
    [t \in DOMAIN d \cup {key} |-> IF t = key THEN value ELSE d[t]]

RECURSIVE readline(_)
\* reader.readline(): the characters up to and including the next "\n", or the
\* rest of the file; empty at the end of the file
readline(rest) ==
    IF rest = <<>> THEN <<>>
    ELSE IF Head(rest) = 10 THEN <<10>>
    ELSE <<Head(rest)>> \o readline(Tail(rest))

RECURSIVE load_loop_keep_first(_, _, _)
\* the loop storing a token only when it is not yet in the dict
load_loop_keep_first(rest, index, d) ==
    LET line == readline(rest)
    IN  IF line = <<>> THEN d
        ELSE LET token == strip(line)
             IN  load_loop_keep_first(SubSeq(rest, Len(line) + 1, Len(rest)), index + 1,
                     IF token \in DOMAIN d THEN d ELSE DictSet(d, token, index))

RECURSIVE load_loop_terminator_only(_, _, _)
\* the loop removing only the line terminator from a line
load_loop_terminator_only(rest, index, d) ==
    LET line == readline(rest)
    IN  IF line = <<>> THEN d
        ELSE LET token == IF line[Len(line)] = 10
                          THEN SubSeq(line, 1, Len(line) - 1) ELSE line
             IN  load_loop_terminator_only(SubSeq(rest, Len(line) + 1, Len(rest)),
                                           index + 1, DictSet(d, token, index))

RECURSIVE load_loop(_, _, _)
\* the while loop of load_vocab
load_loop(rest, index, d) ==
    LET line == readline(rest)
    IN  IF line = <<>> THEN d
        ELSE LET token == strip(line)
             IN  load_loop(SubSeq(rest, Len(line) + 1, Len(rest)), index + 1,
                           DictSet(d, token, index))

load_vocab(file) == load_loop(file, 0, EmptyDict)

\* a dict from the ids 0..n-1 in the order of the stored ids
make_ids_to_tokens_compacted(v) ==
    [i \in 0..(Cardinality(DOMAIN v) - 1) |->
        CHOOSE t \in DOMAIN v : Cardinality({u \in DOMAIN v : v[u] < v[t]}) = i]

\* OrderedDict([(ids, tok) for tok, ids in self.vocab.items()]); load_vocab
\* gives every line its own index, so no two tokens share an id
make_ids_to_tokens(v) ==
    [i \in {v[t] : t \in DOMAIN v} |-> CHOOSE t \in DOMAIN v : v[t] = i]

\* int(1e12), the length limit when max_len is None.  The number is beyond the
\* integers of the model checker; the largest of them stands for it (every
\* length of the model is far below both).
NoLimit == 2147483647

\* self.max_len = max_len if max_len is not None else int(1e12)
init_max_len(arg) == IF ~arg.is_none THEN arg.val ELSE NoLimit

RECURSIVE tokens_to_ids_loop_skipping(_, _, _)
\* the loop leaving out a token that the vocabulary lacks
tokens_to_ids_loop_skipping(tokens, v, ids) ==
    IF tokens = <<>> THEN [status |-> "ok", value |-> ids]
    ELSE tokens_to_ids_loop_skipping(Tail(tokens), v,
             IF Head(tokens) \in DOMAIN v THEN Append(ids, v[Head(tokens)]) ELSE ids)

RECURSIVE tokens_to_ids_loop(_, _, _)
\* the for loop of convert_tokens_to_ids on the vocabulary backend:
\* self.vocab[token] raises KeyError for a missing token
tokens_to_ids_loop(tokens, v, ids) ==
    IF tokens = <<>> THEN [status |-> "ok", value |-> ids]
    ELSE IF Head(tokens) \notin DOMAIN v THEN [status |-> "KeyError", value |-> <<>>]
    ELSE tokens_to_ids_loop(Tail(tokens), v, Append(ids, v[Head(tokens)]))

\* the length test raising at len(ids) >= max_len
length_check_inclusive(r, ml) ==
    IF r.status = "ok" /\ Len(r.value) >= ml
    THEN [status |-> "ValueError", value |-> <<>>]
    ELSE r

\* if len(ids) > self.max_len: raise ValueError(...)
length_check(r, ml) ==
    IF r.status = "ok" /\ Len(r.value) > ml
    THEN [status |-> "ValueError", value |-> <<>>]
    ELSE r

\* BertTokenizer.convert_tokens_to_ids, self.sentencepiece unset
convert_tokens_to_ids(tokens, v, ml) ==
    length_check(tokens_to_ids_loop(tokens, v, <<>>), ml)

RECURSIVE convert_ids_to_tokens(_, _, _)
\* BertTokenizer.convert_ids_to_tokens, self.sentencepiece unset:
\* self.ids_to_tokens[i] raises KeyError for a missing id
convert_ids_to_tokens(ids, i2t, tokens) ==
    IF ids = <<>> THEN [status |-> "ok", value |-> tokens]
    ELSE IF Head(ids) \notin DOMAIN i2t THEN [status |-> "KeyError", value |-> <<>>]
    ELSE convert_ids_to_tokens(Tail(ids), i2t, Append(tokens, i2t[Head(ids)]))

-----------------------------------------------------------------------------
(* WordpieceTokenizer.                                                     *)

\* WordpieceTokenizer.__init__ default of unk_token: "[UNK]"
unk_token == <<91, 85, 78, 75, 93>>

\* substr = "".join(chars[start:end]); if start > 0: substr = "##" + substr
wordpiece_substr(chars, start, end) ==
    IF start > 0 THEN <<35, 35>> \o Slice(chars, start, end)
    ELSE Slice(chars, start, end)

\* the scan trying the shortest substring first
wordpiece_inner_shortest(chars, start, end, v) ==
    LET RECURSIVE grow(_)
        grow(e) ==
            IF e > end THEN [found |-> FALSE, cur_substr |-> <<>>, end |-> start]
            ELSE IF wordpiece_substr(chars, start, e) \in DOMAIN v
                 THEN [found |-> TRUE, cur_substr |-> wordpiece_substr(chars, start, e),
                       end |-> e]
                 ELSE grow(e + 1)
    IN  grow(start + 1)

RECURSIVE wordpiece_inner(_, _, _, _)
\* the loop "while start < end": the longest substring from start that is in
\* the vocabulary; found is "cur_substr is not None"
wordpiece_inner(chars, start, end, v) ==
    IF ~(start < end) THEN [found |-> FALSE, cur_substr |-> <<>>, end |-> end]
    ELSE LET substr == wordpiece_substr(chars, start, end)
         IN  IF substr \in DOMAIN v
             THEN [found |-> TRUE, cur_substr |-> substr, end |-> end]
             ELSE wordpiece_inner(chars, start, end - 1, v)

RECURSIVE wordpiece_outer(_, _, _, _)
\* the loop "while start < len(chars)"
wordpiece_outer(chars, start, sub_tokens, v) ==
    IF ~(start < Len(chars)) THEN [is_bad |-> FALSE, sub_tokens |-> sub_tokens]
    ELSE LET r == wordpiece_inner(chars, start, Len(chars), v)
         IN  IF ~r.found THEN [is_bad |-> TRUE, sub_tokens |-> sub_tokens]
             ELSE wordpiece_outer(chars, r.end, Append(sub_tokens, r.cur_substr), v)

\* one token with the pieces found before the failure kept in front of unk_token
wordpiece_token_keeping(token, v, maxc) ==
    IF Len(token) > maxc THEN <<unk_token>>
    ELSE LET r == wordpiece_outer(token, 0, <<>>, v)
         IN  IF r.is_bad THEN Append(r.sub_tokens, unk_token) ELSE r.sub_tokens

\* the body of the for loop of WordpieceTokenizer.tokenize: what one token
\* adds to output_tokens
wordpiece_token(token, v, maxc) ==
    IF Len(token) > maxc THEN <<unk_token>>
    ELSE LET r == wordpiece_outer(token, 0, <<>>, v)
         IN  IF r.is_bad THEN <<unk_token>> ELSE r.sub_tokens

RECURSIVE wordpiece_loop(_, _, _, _)
\* the for loop over whitespace_tokenize(text)
wordpiece_loop(tokens, v, maxc, output_tokens) ==
    IF tokens = <<>> THEN output_tokens
    ELSE wordpiece_loop(Tail(tokens), v, maxc,
                        output_tokens \o wordpiece_token(Head(tokens), v, maxc))

\* WordpieceTokenizer.tokenize
wordpiece_tokenize(text, v, maxc) ==
    wordpiece_loop(whitespace_tokenize(text), v, maxc, <<>>)

-----------------------------------------------------------------------------
(* The state after construction, and the operations of BasicTokenizer.     *)

NoCall == [op |-> "none", status |-> "ok", value |-> <<>>, sent |-> <<>>]

\* configuration of the parts a specification does not exercise
DefaultVocab ==
    /\ vocab_file = <<>> /\ file_lines = <<>>
    /\ vocab = <<>> /\ ids_to_tokens = <<>>
    /\ max_len = 512
DefaultWordpiece == max_input_chars_per_word = 100
DefaultBasic == do_lower_case = TRUE
DefaultSentencePiece ==
    /\ sp_do_lower_case = FALSE /\ wordpiece_mode = FALSE
    /\ unk_token_id = 1 /\ unused_token_id = 0

\* pieces the input texts of BasicTokenizer are put together from:
\* "[CLS]", " ", "\t", "!", ",", "Hi", "e" with acute accent, a CJK ideograph, NUL
BasicChunks ==
    { <<91, 67, 76, 83, 93>>, <<32>>, <<9>>, <<33>>, <<44>>, <<72, 105>>,
      <<233>>, <<20013>>, <<0>> }

BasicTexts == {Concat(cs) : cs \in SeqUpTo(BasicChunks, MaxChunks)}

InitBasic ==
    /\ do_lower_case \in BOOLEAN
    /\ DefaultVocab /\ DefaultWordpiece /\ DefaultSentencePiece
    /\ input \in [kind : {"text"}, val : BasicTexts]
    /\ ret = NoCall

\* BasicTokenizer.tokenize(text)
BasicTokenize ==
    /\ input.kind = "text"
    /\ ret' = [op |-> "basic_tokenize", status |-> "ok",
               value |-> basic_tokenize(input.val, do_lower_case)]
    /\ UNCHANGED config

\* BasicTokenizer._run_split_on_punc(text)
RunSplitOnPunc ==
    /\ input.kind = "text"
    /\ ret' = [op |-> "_run_split_on_punc", status |-> "ok",
               value |-> _run_split_on_punc(input.val)]
    /\ UNCHANGED config

NextBasic == BasicTokenize \/ RunSplitOnPunc

SpecBasic == InitBasic /\ [][NextBasic]_vars

-----------------------------------------------------------------------------
(* Claims about BasicTokenizer (checked under SpecBasic).                  *)

\* R occurs in text at 0-based offset a
OccursAt(R, text, a) ==
    /\ a + Len(R) <= Len(text)
    /\ Slice(text, a, a + Len(R)) = R

\* R occurs at offset a as a whole word: the text's ends or a whitespace
\* character on each side
DelimitedAt(R, text, a) ==
    /\ OccursAt(R, text, a)
    /\ a = 0 \/ _is_whitespace(text[a])
    /\ a + Len(R) = Len(text) \/ _is_whitespace(text[a + Len(R) + 1])

\* C1 as stated: every reserved token that occurs anywhere in the text, also
\* directly next to a punctuation character, is a token of the output of
\* BasicTokenizer.tokenize, unchanged.
C1_ReservedAlwaysPreserved ==
    ret.op = "basic_tokenize" =>
        \A k \in 1..Len(never_split) : \A a \in 0..Len(input.val) :
            OccursAt(never_split[k], input.val, a) => InSeq(never_split[k], ret.value)

\* C1 amended: a reserved token that stands in the text as a whole
\* whitespace-delimited word is a token of the output, neither lower-cased nor
\* split; directly followed by "!" it is not protected: "[CLS]!" gives
\* "[", "cls", "]", "!" with case folding and "[", "CLS", "]", "!" without.
C1_ReservedWordPreserved ==
    ret.op = "basic_tokenize" =>
        /\ \A k \in 1..Len(never_split) : \A a \in 0..Len(input.val) :
               DelimitedAt(never_split[k], input.val, a)
                   => InSeq(never_split[k], ret.value)
        /\ input.val = <<91, 67, 76, 83, 93, 33>> =>
               ret.value = IF do_lower_case
                           THEN << <<91>>, <<99, 108, 115>>, <<93>>, <<33>> >>
                           ELSE << <<91>>, <<67, 76, 83>>, <<93>>, <<33>> >>

\* C1 witness: "[CLS] !" was tokenized with case folding into "[CLS]", "!"
C1_Witness ==
    /\ ret.op = "basic_tokenize" /\ do_lower_case
    /\ input.val = <<91, 67, 76, 83, 93, 32, 33>>
    /\ ret.value = << <<91, 67, 76, 83, 93>>, <<33>> >>

IsPuncToken(tok) == Len(tok) = 1 /\ _is_punctuation(tok[1])
IsWordToken(tok) == tok # <<>> /\ \A j \in 1..Len(tok) : ~_is_punctuation(tok[j])

\* C10: on a whitespace-free token that is not reserved, _run_split_on_punc
\* returns in order every punctuation character as a token of its own and
\* every maximal run of other characters as one token: the tokens concatenate
\* to the input, none is empty, each is one punctuation character or free of
\* punctuation, and no two neighbours are both free of punctuation; with case
\* folding "Hi,Hi" gives "hi", ",", "hi".
C10_SplitOnPunc ==
    /\ ( /\ ret.op = "_run_split_on_punc"
         /\ ~InSeq(input.val, never_split)
         /\ \A j \in 1..Len(input.val) : ~isspace(input.val[j]) )
       => /\ Concat(ret.value) = input.val
          /\ \A k \in 1..Len(ret.value) :
                 IsPuncToken(ret.value[k]) \/ IsWordToken(ret.value[k])
          /\ \A k \in 1..(Len(ret.value) - 1) :
                 ~(IsWordToken(ret.value[k]) /\ IsWordToken(ret.value[k + 1]))
    /\ ( /\ ret.op = "basic_tokenize" /\ do_lower_case
         /\ input.val = <<72, 105, 44, 72, 105>> )
       => ret.value = << <<104, 105>>, <<44>>, <<104, 105>> >>

\* C10 witness: "Hi!Hi" was split into "Hi", "!", "Hi"
C10_Witness ==
    /\ ret.op = "_run_split_on_punc"
    /\ input.val = <<72, 105, 33, 72, 105>>
    /\ ret.value = << <<72, 105>>, <<33>>, <<72, 105>> >>

-----------------------------------------------------------------------------
(* BertTokenizer on the vocabulary backend: construction from a vocabulary *)
(* file, convert_tokens_to_ids, convert_ids_to_tokens.                     *)

\* lines a vocabulary file is written from (without their terminator):
\* "a", " a ", "[UNK]", ""
VocabLines == { <<97>>, <<32, 97, 32>>, <<91, 85, 78, 75, 93>>, <<>> }

\* tokens handed to convert_tokens_to_ids: "a", "[UNK]", "b"
VocabTokens == { <<97>>, <<91, 85, 78, 75, 93>>, <<98>> }

\* the file whose lines are the given ones, each ended by "\n"
FileOf(lines) == Concat([k \in 1..Len(lines) |-> lines[k] \o <<10>>])

\* the max_len arguments of the constructor: None or a positive length
MaxLenArgs ==
    {[is_none |-> TRUE, val |-> 0]} \cup
    {[is_none |-> FALSE, val |-> n] : n \in 1..MaxTokens}

InitVocab ==
    /\ file_lines \in SeqUpTo(VocabLines, MaxLines)
    /\ vocab_file = FileOf(file_lines)
    /\ vocab = load_vocab(vocab_file)
    /\ ids_to_tokens = make_ids_to_tokens(vocab)
    /\ max_len \in {init_max_len(a) : a \in MaxLenArgs}
    /\ DefaultBasic /\ DefaultWordpiece /\ DefaultSentencePiece
    /\ input \in [kind : {"tokens"}, val : SeqUpTo(VocabTokens, MaxTokens)]
                 \cup [kind : {"ids"}, val : {<<>>} \cup {<<i>> : i \in 0..MaxLines}]
    /\ ret = NoCall

\* BertTokenizer.convert_tokens_to_ids(tokens)
ConvertTokensToIds ==
    /\ input.kind = "tokens"
    /\ ret' = [op |-> "convert_tokens_to_ids"]
              @@ convert_tokens_to_ids(input.val, vocab, max_len)
    /\ UNCHANGED config

\* BertTokenizer.convert_ids_to_tokens(ids)
ConvertIdsToTokens ==
    /\ input.kind = "ids"
    /\ ret' = [op |-> "convert_ids_to_tokens"]
              @@ convert_ids_to_tokens(input.val, ids_to_tokens, <<>>)
    /\ UNCHANGED config

\* BertTokenizer.convert_ids_to_tokens applied to the ids that
\* convert_tokens_to_ids has just returned
ConvertBack ==
    /\ ret.op = "convert_tokens_to_ids" /\ ret.status = "ok"
    /\ ret' = [op |-> "convert_back"]
              @@ convert_ids_to_tokens(ret.value, ids_to_tokens, <<>>)
    /\ UNCHANGED config

NextVocab == ConvertTokensToIds \/ ConvertIdsToTokens \/ ConvertBack

SpecVocab == InitVocab /\ [][NextVocab]_vars

-----------------------------------------------------------------------------
(* Claims about the vocabulary backend (checked under SpecVocab).          *)

AllInVocab(tokens) == \A k \in 1..Len(tokens) : tokens[k] \in DOMAIN vocab

\* C3: when every token converts, convert_tokens_to_ids raises ValueError
\* exactly when the number of ids is greater than max_len; otherwise, also at
\* exactly max_len ids, it returns the id of every token, none cut off.
C3_TooLongIffGreater ==
    (ret.op = "convert_tokens_to_ids" /\ AllInVocab(input.val)) =>
        /\ ret.status = "ValueError" <=> Len(input.val) > max_len
        /\ Len(input.val) <= max_len =>
               /\ ret.status = "ok"
               /\ Len(ret.value) = Len(input.val)
               /\ \A k \in 1..Len(input.val) : ret.value[k] = vocab[input.val[k]]
        /\ ret.status # "ok" => ret.value = <<>>

\* C3 witness: as many tokens as max_len allows were converted and returned
C3_Witness ==
    /\ ret.op = "convert_tokens_to_ids" /\ ret.status = "ok"
    /\ Len(input.val) = max_len /\ Len(ret.value) = max_len

Occurrences(t) == Cardinality({k \in 1..Len(file_lines) : strip(file_lines[k]) = t})

Repeated(k) ==
    \E j \in (k + 1)..Len(file_lines) : strip(file_lines[j]) = strip(file_lines[k])

\* C5: the line with 0-based index i gets id i; a token on several lines maps
\* to the index of its last line, the indices are not compacted, and each
\* earlier index is orphaned: no token maps to it and convert_ids_to_tokens
\* raises KeyError on it.
C5_LineIndexIds ==
    /\ \A k \in 1..Len(file_lines) :
           IF Repeated(k)
           THEN /\ (k - 1) \notin DOMAIN ids_to_tokens
                /\ \A t \in DOMAIN vocab : vocab[t] # k - 1
           ELSE /\ vocab[strip(file_lines[k])] = k - 1
                /\ ids_to_tokens[k - 1] = strip(file_lines[k])
    /\ ret.op = "convert_ids_to_tokens" =>
           ( (\E n \in 1..Len(input.val) :
                  input.val[n] + 1 \in 1..Len(file_lines) /\ Repeated(input.val[n] + 1))
             => ret.status = "KeyError" )

\* C5 witness: convert_ids_to_tokens raised KeyError on the index of a line
\* whose token a later line repeats
C5_Witness ==
    /\ ret.op = "convert_ids_to_tokens" /\ ret.status = "KeyError"
    /\ Len(input.val) = 1 /\ input.val[1] + 1 \in 1..Len(file_lines)
    /\ Repeated(input.val[1] + 1)

\* C6 as stated: the token of a line is the line without its terminator, not
\* trimmed any further, so lines that differ in leading or trailing blanks
\* load as different tokens with different ids.
C6_OnlyTerminatorRemoved ==
    /\ \A k \in 1..Len(file_lines) : file_lines[k] \in DOMAIN vocab
    /\ \A j, k \in 1..Len(file_lines) :
           file_lines[j] # file_lines[k] => vocab[file_lines[j]] # vocab[file_lines[k]]

\* t is s without its leading and trailing whitespace
IsTrimOf(t, s) ==
    /\ \E a \in 0..Len(s) : \E b \in a..Len(s) :
           /\ t = Slice(s, a, b)
           /\ \A j \in 1..a : isspace(s[j])
           /\ \A j \in (b + 1)..Len(s) : isspace(s[j])
    /\ t # <<>> => ~isspace(t[1]) /\ ~isspace(t[Len(t)])

\* C6 amended: the token of a line is the line with all its leading and
\* trailing whitespace removed, not only the terminator; the vocabulary holds
\* these tokens and no others, and two lines that differ only in such
\* whitespace load as one token with one id, that of the later line.
C6_LinesAreStripped ==
    /\ \A k \in 1..Len(file_lines) :
           \E t \in DOMAIN vocab : IsTrimOf(t, file_lines[k])
    /\ \A t \in DOMAIN vocab :
           \E k \in 1..Len(file_lines) : IsTrimOf(t, file_lines[k]) /\ vocab[t] = k - 1
    /\ \A j, k \in 1..Len(file_lines) : \A t \in DOMAIN vocab :
           (j < k /\ IsTrimOf(t, file_lines[j]) /\ IsTrimOf(t, file_lines[k]))
               => vocab[t] >= k - 1

\* C6 witness: the file holds the lines "a" and " a " and the vocabulary
\* holds "a" but not " a "
C6_Witness ==
    /\ InSeq(<<97>>, file_lines) /\ InSeq(<<32, 97, 32>>, file_lines)
    /\ <<97>> \in DOMAIN vocab /\ <<32, 97, 32>> \notin DOMAIN vocab
    /\ ret.op # "none"

\* C9: convert_tokens_to_ids raises KeyError whenever a token of the input is
\* not in the vocabulary, "[UNK]" included; it puts no other id in its place
\* and returns no ids.
C9_MissingTokenRaises ==
    (ret.op = "convert_tokens_to_ids" /\ ~AllInVocab(input.val)) =>
        ret.status = "KeyError" /\ ret.value = <<>>

\* C9 witness: "[UNK]" was converted with a vocabulary that lacks it and
\* KeyError was raised
C9_Witness ==
    /\ ret.op = "convert_tokens_to_ids" /\ ret.status = "KeyError"
    /\ input.val = << <<91, 85, 78, 75, 93>> >>
    /\ <<91, 85, 78, 75, 93>> \notin DOMAIN vocab
    /\ DOMAIN vocab # {}

-----------------------------------------------------------------------------
(* WordpieceTokenizer over a loaded vocabulary.                            *)

\* groups of lines the vocabulary files are put together from: "a", "ab",
\* "##a", "##b", "##ba", "[UNK]", and "un" with "##aff" and "##able"
WordpieceGroups ==
    << << <<97>> >>, << <<97, 98>> >>, << <<35, 35, 97>> >>, << <<35, 35, 98>> >>,
       << <<35, 35, 98, 97>> >>, << unk_token >>,
       << <<117, 110>>, <<35, 35, 97, 102, 102>>, <<35, 35, 97, 98, 108, 101>> >> >>

\* the lines of the groups chosen by the set of indices
LinesOf(chosen) ==
    Concat([g \in 1..Len(WordpieceGroups) |->
               IF g \in chosen THEN WordpieceGroups[g] ELSE <<>>])

\* texts handed to WordpieceTokenizer.tokenize: over "a", "b", " ", and
\* "unaffable"
WordpieceTexts ==
    SeqUpTo({97, 98, 32}, MaxWordLen)
        \cup { <<117, 110, 97, 102, 102, 97, 98, 108, 101>> }

InitWordpiece ==
    /\ \E chosen \in SUBSET (1..Len(WordpieceGroups)) : file_lines = LinesOf(chosen)
    /\ vocab_file = FileOf(file_lines)
    /\ vocab = load_vocab(vocab_file)
    /\ ids_to_tokens = make_ids_to_tokens(vocab)
    /\ max_len = 512
    /\ max_input_chars_per_word \in {2, 3, 100}
    /\ DefaultBasic /\ DefaultSentencePiece
    /\ input \in [kind : {"text"}, val : WordpieceTexts]
    /\ ret = NoCall

\* WordpieceTokenizer.tokenize(text)
WordpieceTokenize ==
    /\ input.kind = "text"
    /\ ret' = [op |-> "wordpiece_tokenize", status |-> "ok",
               value |-> wordpiece_tokenize(input.val, vocab, max_input_chars_per_word)]
    /\ UNCHANGED config

NextWordpiece == WordpieceTokenize

SpecWordpiece == InitWordpiece /\ [][NextWordpiece]_vars

-----------------------------------------------------------------------------
(* Claims about WordpieceTokenizer (checked under SpecWordpiece).          *)

\* the vocabulary entry looked up for w[s:e]: with "##" in front exactly when s > 0
Piece(w, s, e) == IF s = 0 THEN Slice(w, s, e) ELSE <<35, 35>> \o Slice(w, s, e)

\* the ends e of the substrings of w from s that are in the vocabulary
MatchEnds(w, s) == {e \in (s + 1)..Len(w) : Piece(w, s, e) \in DOMAIN vocab}

\* the end of the longest of them
LongestEnd(w, s) == CHOOSE e \in MatchEnds(w, s) : \A f \in MatchEnds(w, s) : f <= e

\* the start positions the greedy scan of w reaches: 0, and the end of the
\* longest match from every reached position
Reached(w) ==
    LET RECURSIVE close(_)
        close(S) ==
            LET T == S \cup {LongestEnd(w, s) : s \in {x \in S : MatchEnds(w, x) # {}}}
            IN  IF T = S THEN S ELSE close(T)
    IN  close({0})

\* some reached start position before the end of w has no match
DeadEnd(w) == \E s \in Reached(w) : s < Len(w) /\ MatchEnds(w, s) = {}

\* w is forced to unk_token
Unknown(w) == Len(w) > max_input_chars_per_word \/ DeadEnd(w)

\* the number of tokens w adds to the output
Share(w) == IF Unknown(w) THEN 1 ELSE Cardinality(Reached(w) \ {Len(w)})

RECURSIVE Before(_, _)
\* the number of output tokens of the words in front of word k
Before(words, k) == IF k = 1 THEN 0 ELSE Before(words, k - 1) + Share(words[k - 1])

\* the tokens of the output that belong to word k
Slot(words, k) ==
    SubSeq(ret.value, Before(words, k) + 1, Before(words, k) + Share(words[k]))

RECURSIVE GreedyPieces(_, _)
\* the reference segmentation of w from position s
GreedyPieces(w, s) ==
    IF s >= Len(w) THEN <<>>
    ELSE <<Piece(w, s, LongestEnd(w, s))>> \o GreedyPieces(w, LongestEnd(w, s))

\* C7: a word of at most max_input_chars_per_word characters that the greedy
\* scan gets through is segmented longest-match-first: from position 0, each
\* piece is the longest substring from the current start that is in the
\* vocabulary (with "##" in front when the start is not 0), the next start is
\* its end, and the pieces come out left to right; with "un", "##aff",
\* "##able" in the vocabulary "unaffable" gives "un", "##aff", "##able".
C7_GreedyLongestMatch ==
    ret.op = "wordpiece_tokenize" =>
        LET words == whitespace_tokenize(input.val)
        IN  /\ \A k \in 1..Len(words) :
                   ~Unknown(words[k]) => Slot(words, k) = GreedyPieces(words[k], 0)
            /\ ( /\ input.val = <<117, 110, 97, 102, 102, 97, 98, 108, 101>>
                 /\ {<<117, 110>>, <<35, 35, 97, 102, 102>>,
                     <<35, 35, 97, 98, 108, 101>>} \subseteq DOMAIN vocab
                 /\ max_input_chars_per_word >= 9 )
               => ret.value = << <<117, 110>>, <<35, 35, 97, 102, 102>>,
                                 <<35, 35, 97, 98, 108, 101>> >>

\* C7 witness: "aba" came out as "ab", "##a" with "a" in the vocabulary too
C7_Witness ==
    /\ ret.op = "wordpiece_tokenize"
    /\ input.val = <<97, 98, 97>>
    /\ <<97>> \in DOMAIN vocab
    /\ ret.value = << <<97, 98>>, <<35, 35, 97>> >>

\* C8: a word of more than max_input_chars_per_word characters, or one where
\* the scan reaches a start with no match, adds exactly unk_token and none of
\* the pieces matched before; a matchable word of exactly
\* max_input_chars_per_word characters is not turned into unk_token; the
\* output holds nothing else and the operation does not fail.
C8_UnknownToken ==
    ret.op = "wordpiece_tokenize" =>
        LET words == whitespace_tokenize(input.val)
        IN  /\ ret.status = "ok"
            /\ Len(ret.value) = Before(words, Len(words) + 1)
            /\ \A k \in 1..Len(words) :
                   /\ Unknown(words[k]) => Slot(words, k) = <<unk_token>>
                   /\ (Len(words[k]) = max_input_chars_per_word /\ ~DeadEnd(words[k]))
                          => /\ Slot(words, k) # <<unk_token>>
                             /\ Concat([j \in 1..Share(words[k]) |->
                                    LET p == Slot(words, k)[j]
                                    IN  IF j = 1 THEN p ELSE SubSeq(p, 3, Len(p))])
                                = words[k]

\* C8 witness: "aba" lost its first piece "ab" to a dead end at the last "a"
\* and came out as "[UNK]"
C8_Witness ==
    /\ ret.op = "wordpiece_tokenize"
    /\ input.val = <<97, 98, 97>>
    /\ <<97, 98>> \in DOMAIN vocab /\ <<35, 35, 97>> \notin DOMAIN vocab
    /\ max_input_chars_per_word = 3
    /\ ret.value = <<unk_token>>

-----------------------------------------------------------------------------
(* SentencePieceTokenizer.  The sentencepiece model (self.spm) is outside  *)
(* the repository: each of its answers is drawn from a small set, the same *)
(* question getting the same answer within one operation.  The tokenizer   *)
(* keeps nothing from one call to the next, so a behaviour is the          *)
(* construction followed by one call.                                      *)

\* SentencePieceTokenizer.__init__ default of unk_token: "[unk]"
sp_unk_token == <<91, 117, 110, 107, 93>>

\* the piece whose id is unused_token_id: "[unused]"
unused_piece == <<91, 117, 110, 117, 115, 101, 100, 93>>

SpmIds == 0..MaxSpmId
SpmIdSeqs == SeqUpTo(SpmIds, MaxSpmSeq)
\* texts the model decodes to: "A", "a", "[unk]", "a[unk] a"
SpmTexts == { <<65>>, <<97>>, sp_unk_token, <<97>> \o sp_unk_token \o <<32, 97>> }
\* pieces the model knows or is asked for: "A", "a", "[unk]", "[unused]"
SpmPieces == { <<65>>, <<97>>, sp_unk_token, unused_piece }

\* SentencePieceTokenizer.__correct_unk_id
correct_unk_id(_id) == IF _id = unused_token_id THEN unk_token_id ELSE _id

\* list(map(self.__correct_unk_id, ids))
correct_all(ids) == [k \in 1..Len(ids) |-> correct_unk_id(ids[k])]

\* a run of non-whitespace characters holds "[unk]"
HoldsUnk(run) ==
    \E a \in 0..Len(run) :
        /\ a + Len(sp_unk_token) <= Len(run)
        /\ Slice(run, a, a + Len(sp_unk_token)) = sp_unk_token

RECURSIVE wordpiece_pattern_sub(_, _)
\* self.wordpiece_pattern.sub(self.unk_token, sentence) with the pattern
\* \S*\[unk\]\S* : every run of non-whitespace that holds "[unk]" becomes "[unk]"
wordpiece_pattern_sub(sentence, run) ==
    LET flushed == IF HoldsUnk(run) THEN sp_unk_token ELSE run
    IN  IF sentence = <<>> THEN flushed
        ELSE IF isspace(Head(sentence))
             THEN flushed \o <<Head(sentence)>> \o wordpiece_pattern_sub(Tail(sentence), <<>>)
             ELSE wordpiece_pattern_sub(Tail(sentence), Append(run, Head(sentence)))

\* decode_ids after self.spm.DecodeIds has answered
decode_ids_finish(sentence) ==
    IF wordpiece_mode THEN wordpiece_pattern_sub(sentence, <<>>) ELSE sentence

\* the answers of self.spm.PieceToId that the constructor has already seen
PieceToIdAgrees(piece, answer) ==
    /\ piece = sp_unk_token => answer = unk_token_id
    /\ piece = unused_piece => answer = unused_token_id

InitSentencePiece ==
    /\ sp_do_lower_case \in BOOLEAN
    /\ wordpiece_mode \in BOOLEAN
    /\ unk_token_id \in SpmIds          \* self.spm.PieceToId(self.unk_token)
    /\ unused_token_id \in SpmIds       \* self.spm.PieceToId("[unused]")
    /\ DefaultBasic /\ DefaultVocab /\ DefaultWordpiece
    /\ input \in [kind : {"sentence"}, val : SpmTexts]
                 \cup [kind : {"ids"}, val : SpmIdSeqs]
                 \cup [kind : {"piece"}, val : SpmPieces]
                 \cup [kind : {"id"}, val : SpmIds]
                 \cup [kind : {"pieces"}, val : SeqUpTo(SpmPieces, MaxSpmSeq)]
    /\ ret = NoCall

\* SentencePieceTokenizer.encode_as_ids(sentence); sent is what went to
\* self.spm.DecodeIds
EncodeAsIds ==
    /\ ret.op = "none" /\ input.kind = "sentence"
    /\ \E first \in SpmIdSeqs, decoded \in SpmTexts, second \in SpmIdSeqs :
           LET sentence == IF sp_do_lower_case THEN lower(input.val) ELSE input.val
               text     == decode_ids_finish(decoded)
           IN  /\ text = sentence => second = first
               /\ ret' = [op |-> "encode_as_ids", status |-> "ok", value |-> second,
                          sent |-> correct_all(first)]
    /\ UNCHANGED config

\* SentencePieceTokenizer.encode_as_pieces(sentence)
EncodeAsPieces ==
    /\ ret.op = "none" /\ input.kind = "sentence"
    /\ \E first \in SpmIdSeqs, decoded \in SpmTexts, second \in SpmIdSeqs,
          decoded2 \in SpmTexts, pieces \in SeqUpTo(SpmPieces, MaxSpmSeq) :
           LET sentence == IF sp_do_lower_case THEN lower(input.val) ELSE input.val
               text     == decode_ids_finish(decoded)
           IN  /\ text = sentence => second = first
               /\ correct_all(second) = correct_all(first) => decoded2 = decoded
               /\ ret' = [op |-> "encode_as_pieces", status |-> "ok", value |-> pieces,
                          sent |-> correct_all(second)]
    /\ UNCHANGED config

\* SentencePieceTokenizer.decode_ids(ids)
DecodeIds ==
    /\ ret.op = "none" /\ input.kind = "ids"
    /\ \E decoded \in SpmTexts :
           ret' = [op |-> "decode_ids", status |-> "ok",
                   value |-> decode_ids_finish(decoded),
                   sent |-> correct_all(input.val)]
    /\ UNCHANGED config

\* SentencePieceTokenizer.piece_to_id(piece)
PieceToId ==
    /\ ret.op = "none" /\ input.kind = "piece"
    /\ \E answer \in SpmIds :
           LET piece == IF sp_do_lower_case THEN lower(input.val) ELSE input.val
           IN  /\ PieceToIdAgrees(piece, answer)
               /\ ret' = [op |-> "piece_to_id", status |-> "ok",
                          value |-> correct_unk_id(answer), sent |-> piece]
    /\ UNCHANGED config

\* SentencePieceTokenizer.id_to_piece(_id)
IdToPiece ==
    /\ ret.op = "none" /\ input.kind = "id"
    /\ \E answer \in SpmPieces :
           ret' = [op |-> "id_to_piece", status |-> "ok", value |-> answer,
                   sent |-> correct_unk_id(input.val)]
    /\ UNCHANGED config

\* SentencePieceTokenizer.decode_pieces(pieces)
DecodePieces ==
    /\ ret.op = "none" /\ input.kind = "pieces"
    /\ \E answers \in [1..Len(input.val) -> SpmIds], decoded \in SpmTexts :
           LET piece(k) == IF sp_do_lower_case THEN lower(input.val[k]) ELSE input.val[k]
           IN  /\ \A k \in 1..Len(input.val) : PieceToIdAgrees(piece(k), answers[k])
               /\ \A j, k \in 1..Len(input.val) :
                      piece(j) = piece(k) => answers[j] = answers[k]
               /\ ret' = [op |-> "decode_pieces", status |-> "ok",
                          value |-> decode_ids_finish(decoded),
                          sent |-> correct_all([k \in 1..Len(input.val) |->
                                                   correct_unk_id(answers[k])])]
    /\ UNCHANGED config

NextSentencePiece ==
    \/ EncodeAsIds \/ EncodeAsPieces \/ DecodeIds
    \/ PieceToId \/ IdToPiece \/ DecodePieces

SpecSentencePiece == InitSentencePiece /\ [][NextSentencePiece]_vars

-----------------------------------------------------------------------------
(* Claims about SentencePieceTokenizer (checked under SpecSentencePiece).  *)

\* C2: when the id of "[unused]" differs from the id of the unknown token,
\* no id that encode_as_ids or piece_to_id returns is the id of "[unused]",
\* whatever the sentencepiece model answers, and decode_ids and id_to_piece
\* hand the model the unknown-token id wherever they were given the id of
\* "[unused]", so both ids give the same result.
C2_PlaceholderNeverSurfaces ==
    unused_token_id # unk_token_id =>
        /\ ret.op = "encode_as_ids" =>
               \A k \in 1..Len(ret.value) : ret.value[k] # unused_token_id
        /\ ret.op = "piece_to_id" => ret.value # unused_token_id
        /\ ret.op = "decode_ids" =>
               ret.sent = [k \in 1..Len(input.val) |->
                              IF input.val[k] = unused_token_id THEN unk_token_id
                              ELSE input.val[k]]
        /\ ret.op = "id_to_piece" =>
               ret.sent = IF input.val = unused_token_id THEN unk_token_id
                          ELSE input.val

-----------------------------------------------------------------------------
(* BertTokenizer end to end on the vocabulary backend: tokenize, then      *)
(* convert_tokens_to_ids on what tokenize returned.                        *)

RECURSIVE bert_tokenize_loop_whole(_, _, _, _)
\* the loop appending every token of the basic tokenizer as it is
bert_tokenize_loop_whole(tokens, v, maxc, split_tokens) ==
    IF tokens = <<>> THEN split_tokens
    ELSE bert_tokenize_loop_whole(Tail(tokens), v, maxc,
                                  Append(split_tokens, Head(tokens)))

RECURSIVE bert_tokenize_loop(_, _, _, _)
\* the for loop of BertTokenizer.tokenize, self.sentencepiece unset
bert_tokenize_loop(tokens, v, maxc, split_tokens) ==
    IF tokens = <<>> THEN split_tokens
    ELSE bert_tokenize_loop(Tail(tokens), v, maxc,
                            split_tokens \o wordpiece_tokenize(Head(tokens), v, maxc))

\* BertTokenizer.tokenize, self.sentencepiece unset
bert_tokenize(text, lc, v, maxc) ==
    bert_tokenize_loop(basic_tokenize(text, lc), v, maxc, <<>>)

\* lines the vocabulary files are put together from: "a", "##b", "!", "[UNK]"
BertVocabLines == << <<97>>, <<35, 35, 98>>, <<33>>, unk_token >>

\* the lines chosen by the set of indices, in the order above
BertLinesOf(chosen) ==
    Concat([g \in 1..Len(BertVocabLines) |->
               IF g \in chosen THEN <<BertVocabLines[g]>> ELSE <<>>])

\* pieces the input texts are put together from: "ab", "A", " ", "!", "[UNK]"
BertChunks == { <<97, 98>>, <<65>>, <<32>>, <<33>>, unk_token }

BertTexts == {Concat(cs) : cs \in SeqUpTo(BertChunks, MaxChunks)}

InitBert ==
    /\ do_lower_case \in BOOLEAN
    /\ \E chosen \in SUBSET (1..Len(BertVocabLines)) : file_lines = BertLinesOf(chosen)
    /\ vocab_file = FileOf(file_lines)
    /\ vocab = load_vocab(vocab_file)
    /\ ids_to_tokens = make_ids_to_tokens(vocab)
    /\ max_len \in {init_max_len([is_none |-> TRUE, val |-> 0]),
                    init_max_len([is_none |-> FALSE, val |-> 1])}
    /\ DefaultWordpiece /\ DefaultSentencePiece
    /\ input \in [kind : {"text"}, val : BertTexts]
    /\ ret = NoCall

\* BertTokenizer.tokenize(text)
BertTokenize ==
    /\ input.kind = "text"
    /\ ret' = [op |-> "tokenize", status |-> "ok",
               value |-> bert_tokenize(input.val, do_lower_case, vocab,
                                       max_input_chars_per_word)]
    /\ UNCHANGED config

\* BertTokenizer.convert_tokens_to_ids applied to the tokens that tokenize
\* has just returned
ConvertTokenized ==
    /\ ret.op = "tokenize"
    /\ ret' = [op |-> "convert_tokenized", tokens |-> ret.value]
              @@ convert_tokens_to_ids(ret.value, vocab, max_len)
    /\ UNCHANGED config

NextBert == BertTokenize \/ ConvertTokenized

SpecBert == InitBert /\ [][NextBert]_vars

-----------------------------------------------------------------------------
(* Claims about BertTokenizer end to end (checked under SpecBert).         *)

\* C11: with "[UNK]" in the vocabulary, every token that
\* BertTokenizer.tokenize returns is a key of the vocabulary, so
\* convert_tokens_to_ids on these tokens never raises KeyError: it returns
\* the id of every token, or raises ValueError when they are more than max_len.
C11_TokenizeStaysInVocab ==
    unk_token \in DOMAIN vocab =>
        /\ ret.op = "tokenize" =>
               \A k \in 1..Len(ret.value) : ret.value[k] \in DOMAIN vocab
        /\ ret.op = "convert_tokenized" =>
               /\ ret.status # "KeyError"
               /\ ret.status = "ValueError" <=> Len(ret.tokens) > max_len
               /\ ret.status = "ok" =>
                      /\ Len(ret.value) = Len(ret.tokens)
                      /\ \A k \in 1..Len(ret.tokens) :
                             ret.value[k] = vocab[ret.tokens[k]]

\* C11 witness: "A" was tokenized without case folding, with "[UNK]" but no
\* "A" in the vocabulary, into "[UNK]", which then converted to its id
C11_Witness ==
    /\ ret.op = "convert_tokenized" /\ ret.status = "ok"
    /\ ~do_lower_case /\ input.val = <<65>>
    /\ unk_token \in DOMAIN vocab
    /\ ret.tokens = <<unk_token>>
    /\ ret.value = <<vocab[unk_token]>>

====
